---- MODULE Spec2Model ----
(***************************************************************************)
(* Model of trader_tools/ma: the OKX candle fetcher (okx_ma_fetch.py) and  *)
(* the moving-average helpers (demo01.py, ma_trend.py).                    *)
(*                                                                         *)
(*   Spec      fetch_candles driving _okx_get, one action per program      *)
(*             step; the network (transport failures, payloads, pages)     *)
(*             is the environment and is chosen nondeterministically.      *)
(*   SpecRoll  _rolling_mean, one action per loop iteration, over every    *)
(*             bounded series and window, in binary64 arithmetic; the      *)
(*             call is made twice with the same arguments.                 *)
(*   SpecRows  the tail of main: build_rows over the fetched candles, then *)
(*             the "insufficient data" test.                               *)
(*   SpecDates calc_ma_start_dates (demo01.py) over calendar dates.        *)
(*   SpecTrend calc_ma_trend with load_ma_csv (ma_trend.py) over CSV rows. *)
(*                                                                         *)
(* A candle is modelled by its timestamp (item[0]); fetch_candles reads no *)
(* other field.  Timestamps are small positive integers standing for the   *)
(* millisecond timestamps of the API.                                      *)
(***************************************************************************)
EXTENDS Integers, Sequences, FiniteSets, TLC

VARIABLES
    \* inputs of fetch_candles
    start_ms, max_batches, retries,
    \* locals of fetch_candles
    candles, before, after, paging_mode, last_oldest, batches,
    \* locals of _okx_get (the call in progress)
    params, attempt, sleeps, payload,
    \* control position and outcome of the fetch_candles call
    pc, error, result,
    \* history: number of _okx_get calls, number of mode switches,
    \* the pages _okx_get returned, in order
    requests, switches, pages,
    \* _rolling_mean: its arguments, the number of samples consumed, and its
    \* locals
    values, window, pos, queue, running_sum, results,
    \* the caller of _rolling_mean: the number of calls that returned and
    \* what the first returned
    calls, prior,
    \* main: the candles fetch_candles returned and target_start in ms;
    \* build_rows: its locals and its result; the error main raised
    fetched, target_start, parsed, ma30, ma60, rows, main_error,
    \* calc_ma_start_dates: its argument, its result and its error; whether
    \* the platform's strftime pads %Y with zeros
    end_dt, pads_year, start_dates, dates_error,
    \* calc_ma_trend: the rows of the CSV file in file order, end_dt, the
    \* result and the error
    csv_rows, trend_end, trend, trend_error

fetchvars == <<start_ms, max_batches, retries, candles, before, after,
               paging_mode, last_oldest, batches, params, attempt, sleeps,
               payload, error, result, requests, switches, pages>>

rollvars == <<values, window, pos, queue, running_sum, results, calls, prior>>

rowvars == <<fetched, target_start, parsed, ma30, ma60, rows, main_error>>

datevars == <<end_dt, pads_year, start_dates, dates_error>>

trendvars == <<csv_rows, trend_end, trend, trend_error>>

\* The variables fetch_candles does not touch.
calcvars == <<rollvars, rowvars, datevars, trendvars>>

vars == <<start_ms, max_batches, retries, candles, before, after, paging_mode,
          last_oldest, batches, params, attempt, sleeps, payload, pc, error,
          result, requests, switches, pages, values, window, pos, queue,
          running_sum, results, calls, prior, fetched, target_start, parsed,
          ma30, ma60, rows, main_error, end_dt, pads_year, start_dates,
          dates_error, csv_rows, trend_end, trend, trend_error>>

----------------------------------------------------------------------------
\* Bounds of the model.
MaxTs == 2
MaxBatchLen == 2
MaxBatches == 4
MaxRetries == 3
MaxSamples == 3
MaxWindow == 2

\* Python's None for before, after and last_oldest.
None == -1

\* The value of a call that returned nothing (it raised, or has not ended):
\* no list of candles.
NoResult == <<None>>

\* RETRY_BACKOFF_SECONDS = 1.5, in tenths of a second.
RETRY_BACKOFF_TENTHS == 15

Ts == 1..MaxTs

\* The pages the provider may return: batches of candles, newest first
\* (the upstream contract), possibly empty.
RECURSIVE Descending(_)
Descending(s) ==
    IF Len(s) <= 1 THEN TRUE
    ELSE s[1] > s[2] /\ Descending(Tail(s))

Batches ==
    { s \in UNION { [1..n -> Ts] : n \in 0..MaxBatchLen } : Descending(s) }

\* A decoded JSON body: payload.get("code"), and payload.get("data") which
\* is a list (islist, items) or anything else (missing, null, a dict, ...).
NoPayload == [code |-> "", islist |-> FALSE, items |-> <<>>]

Payloads ==
    { [code |-> "0", islist |-> TRUE, items |-> b] : b \in Batches }
        \cup { [code |-> c, islist |-> l, items |-> <<>>] :
                 c \in {"0", "51001"}, l \in BOOLEAN }

Failures ==
    {"excessive_pagination", "pagination_stalled", "network_exhausted",
     "network_failed", "provider_rejected", "malformed_response"}

----------------------------------------------------------------------------
\* Python floats are IEEE 754 binary64: 53 significant bits, results rounded
\* to nearest, ties to even.  A float is modelled exactly, as a sign and a
\* magnitude in units of 2^-UNIT_EXP held in NLIMBS limbs of LIMB_BITS bits
\* (least significant first): the floats that are multiples of 2^-80 below
\* 2^20, which is where prices, their window sums and their means lie.
MANT_DIG == 53
LIMB_BITS == 20
NLIMBS == 5
UNIT_EXP == 80

LimbBase == 2 ^ LIMB_BITS

Limbs == 1..NLIMBS

ZeroMag == [k \in Limbs |-> 0]

\* The result of an operation that leaves the modelled range.
OutOfRange == <<>>

RECURSIVE AddFrom(_, _, _, _)
AddFrom(a, b, k, carry) ==
    IF k > NLIMBS THEN <<>>
    ELSE LET s == a[k] + b[k] + carry
         IN  <<s % LimbBase>> \o AddFrom(a, b, k + 1, s \div LimbBase)

MagAdd(a, b) == AddFrom(a, b, 1, 0)

RECURSIVE SubFrom(_, _, _, _)
SubFrom(a, b, k, borrow) ==
    IF k > NLIMBS THEN <<>>
    ELSE LET s == a[k] - b[k] - borrow
         IN  IF s < 0 THEN <<s + LimbBase>> \o SubFrom(a, b, k + 1, 1)
             ELSE <<s>> \o SubFrom(a, b, k + 1, 0)

\* a - b for a >= b
MagSub(a, b) == SubFrom(a, b, 1, 0)

MagLess(a, b) ==
    \E k \in Limbs : a[k] < b[k] /\ \A j \in (k + 1)..NLIMBS : a[j] = b[j]

\* The position of the most significant bit of a # 0 (bit 0 is one unit).
TopBit(a) ==
    LET k == CHOOSE i \in Limbs : a[i] # 0 /\ \A j \in (i + 1)..NLIMBS : a[j] = 0
        n == CHOOSE i \in 1..LIMB_BITS : 2 ^ (i - 1) <= a[k] /\ a[k] < 2 ^ i
    IN  LIMB_BITS * (k - 1) + n - 1

BitAt(a, p) == (a[(p \div LIMB_BITS) + 1] \div (2 ^ (p % LIMB_BITS))) % 2

\* some bit below position p is set
AnyBelow(a, p) ==
    \E k \in Limbs :
        \/ k < (p \div LIMB_BITS) + 1 /\ a[k] # 0
        \/ k = (p \div LIMB_BITS) + 1 /\ a[k] % (2 ^ (p % LIMB_BITS)) # 0

ClearBelow(a, p) ==
    [k \in Limbs |->
        IF k < (p \div LIMB_BITS) + 1 THEN 0
        ELSE IF k = (p \div LIMB_BITS) + 1
             THEN (a[k] \div (2 ^ (p % LIMB_BITS))) * (2 ^ (p % LIMB_BITS))
             ELSE a[k]]

UnitAt(p) ==
    [k \in Limbs |-> IF k = (p \div LIMB_BITS) + 1 THEN 2 ^ (p % LIMB_BITS) ELSE 0]

\* The magnitude a (plus, with sticky, a further part below one unit)
\* rounded to MANT_DIG significant bits, to nearest, ties to even.
RoundToNearestEven(a, sticky) ==
    IF a = ZeroMag THEN (IF sticky THEN OutOfRange ELSE a)
    ELSE LET cut == TopBit(a) - (MANT_DIG - 1)
         IN  IF cut <= 0 THEN (IF sticky THEN OutOfRange ELSE a)
             ELSE LET half == BitAt(a, cut - 1) = 1
                      low  == AnyBelow(a, cut - 1) \/ sticky
                      odd  == BitAt(a, cut) = 1
                  IN  IF half /\ (low \/ odd)
                      THEN MagAdd(ClearBelow(a, cut), UnitAt(cut))
                      ELSE ClearBelow(a, cut)

Float(neg, mag) == [neg |-> neg /\ mag # ZeroMag, mag |-> mag]

FZero == Float(FALSE, ZeroMag)

\* float(n) for an integer 0 <= n < 2^20
FromInt(n) == Float(FALSE, [k \in Limbs |-> IF k = NLIMBS THEN n ELSE 0])

\* x + y
FAdd(x, y) ==
    IF x.neg = y.neg
    THEN Float(x.neg, RoundToNearestEven(MagAdd(x.mag, y.mag), FALSE))
    ELSE IF MagLess(x.mag, y.mag)
         THEN Float(y.neg, RoundToNearestEven(MagSub(y.mag, x.mag), FALSE))
         ELSE Float(x.neg, RoundToNearestEven(MagSub(x.mag, y.mag), FALSE))

\* x - y
FSub(x, y) == FAdd(x, Float(~y.neg, y.mag))

\* The remainder of the limbs k.. of a divided by w.
RECURSIVE RemFrom(_, _, _)
RemFrom(a, w, k) ==
    IF k > NLIMBS THEN 0
    ELSE (RemFrom(a, w, k + 1) * LimbBase + a[k]) % w

\* x / w for an integer 1 <= w < 2^10 (schoolbook division, then rounding)
FDivInt(x, w) ==
    LET q == [k \in Limbs |-> (RemFrom(x.mag, w, k + 1) * LimbBase + x.mag[k]) \div w]
    IN  Float(x.neg, RoundToNearestEven(q, RemFrom(x.mag, w, 1) # 0))

----------------------------------------------------------------------------
\* No _rolling_mean call in progress.
RollIdle ==
    /\ values = <<>>
    /\ window = 0
    /\ pos = 0
    /\ queue = <<>>
    /\ running_sum = FZero
    /\ results = <<>>
    /\ calls = 0
    /\ prior = <<>>

\* No build_rows call in progress.
RowsIdle ==
    /\ fetched = <<>>
    /\ target_start = 0
    /\ parsed = <<>>
    /\ ma30 = <<>>
    /\ ma60 = <<>>
    /\ rows = <<>>
    /\ main_error = "none"

\* MaStartDates before calc_ma_start_dates has returned one.
NoDates == [ma30_start |-> <<>>, ma60_start |-> <<>>]

\* No calc_ma_start_dates call in progress.
DatesIdle ==
    /\ end_dt = [year |-> 1, month |-> 1, day |-> 1, hour |-> 0]
    /\ pads_year = TRUE
    /\ start_dates = NoDates
    /\ dates_error = "none"

\* MaTrendResult before calc_ma_trend has returned one.
NoTrend ==
    [latest_ts |-> 0, prev_ts |-> 0,
     ma30_latest |-> 0, ma30_prev |-> 0, ma30_trend |-> "",
     ma60_latest |-> 0, ma60_prev |-> 0, ma60_trend |-> ""]

\* No calc_ma_trend call in progress.
TrendIdle ==
    /\ csv_rows = <<>>
    /\ trend_end = 0
    /\ trend = NoTrend
    /\ trend_error = "none"

\* fetch_candles, lines 101-106, for any start_ms, max_batches and retries.
Init ==
    /\ RollIdle
    /\ RowsIdle
    /\ DatesIdle
    /\ TrendIdle
    /\ start_ms \in 0..MaxTs
    /\ max_batches \in 0..MaxBatches
    /\ retries \in -1..MaxRetries
    /\ candles = <<>>
    /\ before = None
    /\ after = None
    /\ paging_mode = "before"
    /\ last_oldest = None
    /\ batches = 0
    /\ params = [before |-> None, after |-> None]
    /\ attempt = 0
    /\ sleeps = <<>>
    /\ payload = NoPayload
    /\ pc = "loop"
    /\ error = "none"
    /\ result = NoResult
    /\ requests = 0
    /\ switches = 0
    /\ pages = <<>>

\* raise RuntimeError(...): the call ends with the error and returns nothing.
\* RaisedResult is what the caller gets; RaisedResultPartial is the faulty
\* variant that would hand back the candles accumulated so far.
RaisedResultPartial(acc) == acc

RaisedResult(acc) == NoResult

Raise(kind, acc) ==
    /\ pc' = "raised"
    /\ error' = kind
    /\ result' = RaisedResult(acc)

\* return candles (line 156)
\* ReturnValue is the list itself, empty or not; ReturnValueOrNothing is the
\* faulty variant that would return nothing for an empty list.
ReturnValueOrNothing(acc) == IF acc = <<>> THEN NoResult ELSE acc

ReturnValue(acc) == acc

Return(acc) ==
    /\ pc' = "returned"
    /\ error' = error
    /\ result' = ReturnValue(acc)

\* line 110
\* ExceedsMaxBatches is the test of line 110; ExceedsMaxBatchesLate is the
\* faulty variant that lets one more batch through.
ExceedsMaxBatchesLate(b) == b > max_batches + 1

ExceedsMaxBatches(b) == b > max_batches

\* lines 112-120: the cursor parameters of the request
\* BuildParams sends the anchor of the active mode only; BuildParamsAnyMode is
\* the faulty variant that sends every anchor that is set.
BuildParamsAnyMode == [before |-> before, after |-> after]

BuildParams ==
    [before |-> IF paging_mode = "before" /\ before # None THEN before ELSE None,
     after  |-> IF paging_mode = "after" /\ after # None THEN after ELSE None]

\* lines 109-111: the batch ceiling
ExcessivePagination ==
    /\ pc = "loop"
    /\ batches' = batches + 1
    /\ ExceedsMaxBatches(batches')
    /\ Raise("excessive_pagination", candles)
    /\ UNCHANGED <<calcvars, start_ms, max_batches, retries, candles, before, after,
                   paging_mode, last_oldest, params, attempt, sleeps, payload,
                   requests, switches, pages>>

\* lines 109-122 and 52-57: one more iteration calls _okx_get
IssueRequest ==
    /\ pc = "loop"
    /\ batches' = batches + 1
    /\ ~ExceedsMaxBatches(batches')
    /\ params' = BuildParams
    /\ requests' = requests + 1
    /\ attempt' = 0
    /\ sleeps' = <<>>
    /\ payload' = NoPayload
    /\ pc' = "attempt"
    /\ UNCHANGED <<calcvars, start_ms, max_batches, retries, candles, before, after,
                   paging_mode, last_oldest, error, result, switches, pages>>

\* line 58: for attempt in range(1, retries + 1) has another iteration
\* HasNextAttempt is the test of the for loop; HasNextAttemptAtLeastOnce is the
\* faulty variant of a loop that always runs its first iteration.
HasNextAttemptAtLeastOnce == attempt = 0 \/ attempt + 1 <= retries

HasNextAttempt == attempt + 1 <= retries

\* line 69
IsLastAttempt(a) == a = retries

\* line 74: time.sleep(RETRY_BACKOFF_SECONDS * attempt), in tenths of a second
\* Backoff grows with the attempt number; BackoffConstant is the faulty
\* variant that sleeps the same time after every attempt.
BackoffConstant(a) == RETRY_BACKOFF_TENTHS

Backoff(a) == RETRY_BACKOFF_TENTHS * a

\* lines 58, 75-76: the for loop ends without a break (no attempt was made)
NoAttemptLeft ==
    /\ pc = "attempt"
    /\ ~HasNextAttempt
    /\ Raise("network_failed", candles)
    /\ UNCHANGED <<calcvars, start_ms, max_batches, retries, candles, before, after,
                   paging_mode, last_oldest, batches, params, attempt, sleeps,
                   payload, requests, switches, pages>>

\* lines 58-74: an attempt fails with URLError, SSLError or TimeoutError
TransportError ==
    /\ pc = "attempt"
    /\ HasNextAttempt
    /\ attempt' = attempt + 1
    /\ IF IsLastAttempt(attempt')
       THEN /\ Raise("network_exhausted", candles)
            /\ sleeps' = sleeps
       ELSE /\ sleeps' = Append(sleeps, Backoff(attempt'))
            /\ UNCHANGED <<pc, error, result>>
    /\ UNCHANGED <<calcvars, start_ms, max_batches, retries, candles, before, after,
                   paging_mode, last_oldest, batches, params, payload,
                   requests, switches, pages>>

\* An attempt obtains a response with body p (lines 58-66): the loop breaks.
Responds(p) ==
    /\ pc = "attempt"
    /\ HasNextAttempt
    /\ p \in Payloads
    /\ attempt' = attempt + 1
    /\ payload' = p
    /\ sleeps' = sleeps

\* line 78
\* IsRejected looks at the code alone; IsRejectedListOnly is the faulty
\* variant that rejects only payloads whose data is a list.
IsRejectedListOnly(p) == p.code # "0" /\ p.islist

IsRejected(p) == p.code # "0"

\* line 83
IsMalformed(p) == ~p.islist

\* _okx_get returns p's data (line 86)
ReturnsData(p) == ~IsRejected(p) /\ ~IsMalformed(p)

\* lines 78-80
ProviderRejected ==
    \E p \in Payloads :
        /\ Responds(p)
        /\ IsRejected(p)
        /\ Raise("provider_rejected", candles)
        /\ UNCHANGED <<calcvars, start_ms, max_batches, retries, candles, before, after,
                       paging_mode, last_oldest, batches, params, requests,
                       switches, pages>>

\* lines 82-84
MalformedResponse ==
    \E p \in Payloads :
        /\ Responds(p)
        /\ ~IsRejected(p)
        /\ IsMalformed(p)
        /\ Raise("malformed_response", candles)
        /\ UNCHANGED <<calcvars, start_ms, max_batches, retries, candles, before, after,
                       paging_mode, last_oldest, batches, params, requests,
                       switches, pages>>

\* line 134: oldest_ts = int(batch[-1][0])
Oldest(batch) == batch[Len(batch)]

\* line 139
\* IsStall is the test of line 139 (>=); IsStallStrict is the faulty variant
\* that takes an equal oldest timestamp for progress.
IsStallStrict(oldest_ts) == last_oldest # None /\ oldest_ts > last_oldest

IsStall(oldest_ts) == last_oldest # None /\ oldest_ts >= last_oldest

\* line 149
\* HorizonReached is the test of line 149 (<=); HorizonReachedStrict is the
\* faulty variant with a strict comparison.
HorizonReachedStrict(oldest_ts) == oldest_ts < start_ms

HorizonReached(oldest_ts) == oldest_ts <= start_ms

\* line 145: last_oldest after the switch to after mode
\* SwitchLastOldest resets it to None; SwitchLastOldestKept is the faulty
\* variant that keeps the oldest timestamp just seen.
SwitchLastOldestKept(oldest_ts) == oldest_ts

SwitchLastOldest(oldest_ts) == None

\* line 133: candles.extend(batch)
\* Extend appends the whole batch; ExtendNew is the faulty variant that leaves
\* out the candles the accumulator already holds.
ExtendNew(acc, batch) ==
    acc \o SelectSeq(batch, LAMBDA c : \A i \in 1..Len(acc) : acc[i] # c)

Extend(acc, batch) == acc \o batch

\* line 140: the switch is taken in before mode only
\* CanSwitch is the test of line 140; CanSwitchAlways is the faulty variant
\* that switches again in after mode.
CanSwitchAlways == TRUE

CanSwitch == paging_mode = "before"

\* lines 130-131: an empty page ends the loop
EmptyPage ==
    \E p \in Payloads :
        /\ Responds(p)
        /\ ReturnsData(p)
        /\ p.items = <<>>
        /\ pages' = Append(pages, p.items)
        /\ Return(candles)
        /\ UNCHANGED <<calcvars, start_ms, max_batches, retries, candles, before, after,
                       paging_mode, last_oldest, batches, params, requests,
                       switches>>

\* lines 133-146: no progress in before mode, switch to after mode
StallSwitch ==
    \E p \in Payloads :
        /\ Responds(p)
        /\ ReturnsData(p)
        /\ p.items # <<>>
        /\ pages' = Append(pages, p.items)
        /\ candles' = Extend(candles, p.items)
        /\ IsStall(Oldest(p.items))
        /\ CanSwitch
        /\ paging_mode' = "after"
        /\ after' = Oldest(p.items)
        /\ last_oldest' = SwitchLastOldest(Oldest(p.items))
        /\ switches' = switches + 1
        /\ pc' = "loop"
        /\ UNCHANGED <<calcvars, start_ms, max_batches, retries, before, batches, params,
                       error, result, requests>>

\* lines 133-147: no progress in after mode
StallFail ==
    \E p \in Payloads :
        /\ Responds(p)
        /\ ReturnsData(p)
        /\ p.items # <<>>
        /\ pages' = Append(pages, p.items)
        /\ candles' = Extend(candles, p.items)
        /\ IsStall(Oldest(p.items))
        /\ ~CanSwitch
        /\ Raise("pagination_stalled", candles')
        /\ UNCHANGED <<calcvars, start_ms, max_batches, retries, before, after,
                       paging_mode, last_oldest, batches, params, requests,
                       switches>>

\* lines 133-150: the horizon is covered
HorizonPage ==
    \E p \in Payloads :
        /\ Responds(p)
        /\ ReturnsData(p)
        /\ p.items # <<>>
        /\ pages' = Append(pages, p.items)
        /\ candles' = Extend(candles, p.items)
        /\ ~IsStall(Oldest(p.items))
        /\ last_oldest' = Oldest(p.items)
        /\ HorizonReached(Oldest(p.items))
        /\ Return(candles')
        /\ UNCHANGED <<calcvars, start_ms, max_batches, retries, before, after,
                       paging_mode, batches, params, requests, switches>>

\* lines 133-154: progress, the cursor moves
ProgressPage ==
    \E p \in Payloads :
        /\ Responds(p)
        /\ ReturnsData(p)
        /\ p.items # <<>>
        /\ pages' = Append(pages, p.items)
        /\ candles' = Extend(candles, p.items)
        /\ ~IsStall(Oldest(p.items))
        /\ last_oldest' = Oldest(p.items)
        /\ ~HorizonReached(Oldest(p.items))
        /\ IF paging_mode = "before"
           THEN before' = Oldest(p.items) - 1 /\ after' = after
           ELSE after' = Oldest(p.items) /\ before' = before
        /\ pc' = "loop"
        /\ UNCHANGED <<calcvars, start_ms, max_batches, retries, paging_mode, batches,
                       params, error, result, requests, switches>>

Next ==
    \/ ExcessivePagination
    \/ IssueRequest
    \/ NoAttemptLeft
    \/ TransportError
    \/ ProviderRejected
    \/ MalformedResponse
    \/ EmptyPage
    \/ StallSwitch
    \/ StallFail
    \/ HorizonPage
    \/ ProgressPage

Spec == Init /\ [][Next]_vars

----------------------------------------------------------------------------
Terminal == {"returned", "raised"}

Last(s) == s[Len(s)]

\* A page was received in this step.
PageReceived == pages' # pages

\* C1: every step of a fetch_candles call ends it, starts a new iteration or
\* makes one more attempt, with batches <= max_batches + 1 and attempt <=
\* retries, so the call ends; it issues at most max_batches _okx_get calls;
\* and the iteration after max_batches pages raises "excessive pagination"
\* without another request.
C1_BoundedPagination ==
    [][ /\ pc \notin Terminal
        /\ requests' <= max_batches
        /\ batches' <= max_batches + 1
        /\ attempt' <= (IF retries > 0 THEN retries ELSE 0)
        /\ \/ pc' \in Terminal
           \/ batches' > batches
           \/ batches' = batches /\ attempt' > attempt
        /\ (pc = "loop" /\ batches = max_batches) =>
              /\ pc' = "raised"
              /\ error' = "excessive_pagination"
              /\ requests' = requests ]_vars

C1_Witness ==
    /\ pc = "raised"
    /\ error = "excessive_pagination"
    /\ max_batches >= 2
    /\ requests = max_batches

\* The stub of C2: every page so far is the same non-empty batch, its
\* oldest timestamp is above start_ms, no _okx_get call failed, and
\* max_batches allows the four requests.
SameBatchStub ==
    /\ Len(pages) >= 1
    /\ pages[1] # <<>>
    /\ \A i \in 1..Len(pages) : pages[i] = pages[1]
    /\ Oldest(pages[1]) > start_ms
    /\ max_batches >= 4
    /\ error \notin {"network_exhausted", "network_failed",
                     "provider_rejected", "malformed_response"}

\* C2: against a stub that always returns the same non-empty batch above
\* the horizon, the second page switches the mode from before to after
\* (the only switch), the fourth page, the second stall, fails in after
\* mode with the stall error, and the call never returns successfully.
C2_SameBatchStalls ==
    SameBatchStub =>
        /\ pc # "returned"
        /\ switches = (IF Len(pages) >= 2 THEN 1 ELSE 0)
        /\ paging_mode = (IF Len(pages) >= 2 THEN "after" ELSE "before")
        /\ Len(pages) <= 4
        /\ (Len(pages) = 4) <=> (pc = "raised")
        /\ pc = "raised" => error = "pagination_stalled"

C2_Witness ==
    /\ SameBatchStub
    /\ error = "pagination_stalled"
    /\ switches = 1

\* C3: when the first page is empty, fetch_candles returns the empty list
\* without error, after that one request.
C3_EmptyFirstPage ==
    (Len(pages) >= 1 /\ pages[1] = <<>>) =>
        /\ pc = "returned"
        /\ result = <<>>
        /\ error = "none"
        /\ Len(pages) = 1
        /\ requests = 1

C3_Witness ==
    /\ pages = << <<>> >>
    /\ pc = "returned"
    /\ start_ms > 0
    /\ attempt > 1

\* C4: a non-empty page whose oldest timestamp is <= start_ms ends the call
\* successfully in that step: no switch, no error, no further request, and
\* the result is the accumulated candles followed by that page.
C4_HorizonEndsCall ==
    [][ (/\ PageReceived
         /\ Last(pages') # <<>>
         /\ Oldest(Last(pages')) <= start_ms) =>
            /\ pc' = "returned"
            /\ error' = "none"
            /\ switches' = switches
            /\ paging_mode' = paging_mode
            /\ requests' = requests
            /\ result' = candles \o Last(pages') ]_vars

C4_Witness ==
    /\ pc = "returned"
    /\ Len(pages) >= 2
    /\ Last(pages) # <<>>
    /\ Oldest(Last(pages)) <= start_ms
    /\ switches = 1

\* The waits of a call whose first n attempts failed at transport level.
LinearBackoff(n) == [k \in 1..n |-> RETRY_BACKOFF_TENTHS * k]

\* C5: with retries >= 1, while every attempt of an _okx_get call fails at
\* transport level, the k-th failure (k < retries) is followed by a wait of
\* RETRY_BACKOFF_SECONDS * k; the retries-th failure ends the call with the
\* "network exhausted" error, after retries attempts and no further wait.
C5_RetriesWithLinearBackoff ==
    retries >= 1 =>
        /\ pc = "attempt" => (attempt < retries /\ sleeps = LinearBackoff(attempt))
        /\ error = "network_exhausted" =>
              (attempt = retries /\ sleeps = LinearBackoff(retries - 1))
        /\ error # "network_failed"

C5_Witness ==
    /\ error = "network_exhausted"
    /\ retries = 3
    /\ Len(sleeps) = 2

\* An attempt obtained a transport-level response in this step.
ResponseObtained == pc = "attempt" /\ payload' # NoPayload

\* C6: the attempt that obtains a response is the last of its _okx_get
\* call, whatever the payload: a code other than "0" raises the provider
\* rejection, otherwise data that is not a list raises the malformed
\* response error, otherwise the data is returned; only a transport failure
\* is followed by another attempt.
C6_NoRetryAfterResponse ==
    [][ /\ ResponseObtained =>
              /\ pc' # "attempt"
              /\ attempt' = attempt + 1
              /\ sleeps' = sleeps
              /\ payload'.code # "0" =>
                    (pc' = "raised" /\ error' = "provider_rejected")
              /\ (payload'.code = "0" /\ ~payload'.islist) =>
                    (pc' = "raised" /\ error' = "malformed_response")
              /\ (payload'.code = "0" /\ payload'.islist) =>
                    (PageReceived /\ Last(pages') = payload'.items)
        /\ (pc = "attempt" /\ pc' = "attempt") =>
              (payload' = NoPayload /\ attempt' = attempt + 1) ]_vars

C6_Witness ==
    /\ error = "provider_rejected"
    /\ ~payload.islist
    /\ attempt = 2
    /\ retries = 3

\* C7: a fetch_candles call that fails raises one of the failures, returns
\* nothing (also when pages were accumulated) and takes no further step.
C7_FailuresAreTerminal ==
    [][ /\ pc # "raised"
        /\ (error' # "none") <=> (pc' = "raised")
        /\ pc' = "raised" =>
              /\ error' \in Failures
              /\ result' = NoResult
              /\ requests' = requests ]_vars

C7_Witness ==
    /\ pc = "raised"
    /\ error = "network_exhausted"
    /\ candles # <<>>
    /\ result = NoResult

----------------------------------------------------------------------------
\* A request is issued in this step.
RequestIssued == requests' = requests + 1

NoCursor == [before |-> None, after |-> None]

\* C15: the first request carries neither before nor after; a request that
\* follows a page accepted as progress with oldest timestamp t carries
\* before = t - 1 in before mode and after = t in after mode; no request
\* carries both, and a request carries only the anchor of the active mode.
C15_CursorRule ==
    [][ RequestIssued =>
          /\ requests = 0 => params' = NoCursor
          /\ params'.before = None \/ params'.after = None
          /\ paging_mode = "before" => params'.after = None
          /\ paging_mode = "after" => params'.before = None
          /\ (requests > 0 /\ last_oldest # None) =>
                params' = IF paging_mode = "before"
                          THEN [before |-> Oldest(Last(pages)) - 1, after |-> None]
                          ELSE [before |-> None, after |-> Oldest(Last(pages))] ]_vars

C15_Witness ==
    /\ pc = "attempt"
    /\ requests = 4
    /\ paging_mode = "after"
    /\ last_oldest # None
    /\ before # None
    /\ params = [before |-> None, after |-> Oldest(Last(pages))]

\* A non-empty page was received in this step and accepted: it neither
\* switched the mode nor raised the stall error.
Accepted ==
    /\ PageReceived
    /\ Last(pages') # <<>>
    /\ switches' = switches
    /\ error' # "pagination_stalled"

\* C16: last_oldest, when set, is the oldest timestamp of the batch accepted
\* last in the current mode; an accepted batch has an oldest timestamp
\* strictly below it, and becomes the new last_oldest; a batch whose oldest
\* timestamp is >= last_oldest switches the mode or raises the stall error.
C16_ProgressCheck ==
    [][ (PageReceived /\ Last(pages') # <<>>) =>
          /\ last_oldest # None => last_oldest = Oldest(Last(pages))
          /\ (last_oldest # None /\ Oldest(Last(pages')) >= last_oldest) =>
                \/ switches' = switches + 1
                \/ pc' = "raised" /\ error' = "pagination_stalled"
          /\ Accepted =>
                /\ last_oldest' = Oldest(Last(pages'))
                /\ last_oldest # None => Oldest(Last(pages')) < last_oldest ]_vars

C16_Witness ==
    /\ pc = "loop"
    /\ switches = 1
    /\ Len(pages) = 4
    /\ Oldest(pages[4]) < Oldest(pages[3])
    /\ last_oldest = Oldest(pages[4])

\* The pages, one after the other.
RECURSIVE Concat(_)
Concat(ps) == IF ps = <<>> THEN <<>> ELSE Head(ps) \o Concat(Tail(ps))

\* C17: a successful call returns the concatenation, in arrival order, of
\* the pages it received: nothing dropped or reordered, a page delivered
\* twice (as the one that triggers the switch) is in the result twice.
C17_ReturnsAllPagesInOrder ==
    pc = "returned" => result = Concat(pages)

C17_Witness ==
    /\ pc = "returned"
    /\ switches = 1
    /\ Len(pages) = 3
    /\ pages[1] = pages[2]
    /\ Len(pages[3]) = 2
    /\ Len(result) = 2 * Len(pages[1]) + 2

\* C18: the mode is before until the one switch and after from then on;
\* the switch happens in before mode on a non-progressing batch, resets
\* last_oldest and sets the after anchor to that batch's oldest timestamp;
\* a batch received in after mode while last_oldest is unset is not a stall.
C18_ModeSwitchesOnce ==
    [][ /\ (switches = 0) <=> (paging_mode = "before")
        /\ (switches' = 0) <=> (paging_mode' = "before")
        /\ paging_mode' \in {"before", "after"}
        /\ switches' <= 1
        /\ paging_mode = "after" => paging_mode' = "after"
        /\ switches' # switches =>
              /\ paging_mode = "before"
              /\ paging_mode' = "after"
              /\ last_oldest # None
              /\ Oldest(Last(pages')) >= last_oldest
              /\ last_oldest' = None
              /\ after' = Oldest(Last(pages'))
              /\ pc' = "loop"
        /\ (PageReceived /\ Last(pages') # <<>>
              /\ paging_mode = "after" /\ last_oldest = None) =>
              /\ error' = "none"
              /\ last_oldest' = Oldest(Last(pages')) ]_vars

C18_Witness ==
    /\ pc = "loop"
    /\ paging_mode = "after"
    /\ switches = 1
    /\ Len(pages) = 3
    /\ Oldest(pages[3]) = Oldest(pages[2])
    /\ last_oldest = Oldest(pages[3])
    /\ after = Oldest(pages[3])

\* C19: an _okx_get call with retries <= 0 makes no attempt and obtains no
\* payload; its one step raises the "network failed" error, and the
\* fetch_candles call returns nothing.
C19_NoAttemptWithoutRetries ==
    [][ (pc = "attempt" /\ retries <= 0) =>
          /\ pc' = "raised"
          /\ error' = "network_failed"
          /\ attempt' = 0
          /\ payload' = NoPayload
          /\ sleeps' = <<>>
          /\ pages' = <<>>
          /\ result' = NoResult ]_vars

C19_Witness ==
    /\ pc = "raised"
    /\ error = "network_failed"
    /\ retries = 0
    /\ requests = 1
    /\ attempt = 0

----------------------------------------------------------------------------
\* build_rows, lines 181-182: the candles parsed and sorted ascending by
\* timestamp (list.sort is stable), which is what _rolling_mean is fed.
InsertByTs(s, x) ==
    LET n == Cardinality({i \in 1..Len(s) : s[i] <= x})
    IN  SubSeq(s, 1, n) \o <<x>> \o SubSeq(s, n + 1, Len(s))

RECURSIVE SortByTs(_)
SortByTs(s) ==
    IF s = <<>> THEN <<>>
    ELSE InsertByTs(SortByTs(SubSeq(s, 1, Len(s) - 1)), s[Len(s)])

Parsed(cs) == SortByTs(cs)

StrictlyAscending(s) == \A i \in 1..(Len(s) - 1) : s[i] < s[i + 1]

\* C8: the series build_rows feeds to the rolling means, made from the
\* candles fetch_candles returned, is strictly ascending by timestamp
\* (duplicates across batches are collapsed).
C8_FedSeriesStrictlyAscending ==
    pc = "returned" => StrictlyAscending(Parsed(result))

----------------------------------------------------------------------------
\* _rolling_mean (lines 159-172)

\* The close prices of the series, as decimal strings of hundredths:
\* "0.10", "1.00", "2.00".
PriceCents == {10, 100, 200}

\* float(item[4]) (line 181): the float nearest to the decimal cents / 100.
ParseFloat(cents) == FDivInt(FromInt(cents), 100)

FloatVals == {ParseFloat(c) : c \in PriceCents}

\* The series _rolling_mean is given by build_rows: pairs <<ts, value>>
\* sorted ascending by timestamp (line 182), equal timestamps possible.
Series ==
    { s \in UNION { [1..n -> (1..MaxSamples) \X FloatVals] : n \in 0..MaxSamples } :
        \A i \in 1..(Len(s) - 1) : s[i][1] <= s[i + 1][1] }

\* lines 160-162, for any series and any window >= 1
InitRoll ==
    /\ values \in Series
    /\ window \in 1..MaxWindow
    /\ pos = 0
    /\ queue = <<>>
    /\ running_sum = FZero
    /\ results = <<>>
    /\ calls = 0
    /\ prior = <<>>
    /\ RowsIdle
    /\ DatesIdle
    /\ TrendIdle
    /\ pc = "rolling"
    /\ start_ms = 0
    /\ max_batches = 0
    /\ retries = 0
    /\ candles = <<>>
    /\ before = None
    /\ after = None
    /\ paging_mode = "before"
    /\ last_oldest = None
    /\ batches = 0
    /\ params = [before |-> None, after |-> None]
    /\ attempt = 0
    /\ sleeps = <<>>
    /\ payload = NoPayload
    /\ error = "none"
    /\ result = NoResult
    /\ requests = 0
    /\ switches = 0
    /\ pages = <<>>

\* line 167
\* ExceedsWindow is the test of line 167 (>); ExceedsWindowEarly is the faulty
\* variant that evicts as soon as the queue holds window samples.
ExceedsWindowEarly(n) == n >= window

ExceedsWindow(n) == n > window

\* line 168: running_sum -= queue.popleft()
\* AfterPop subtracts the evicted sample; AfterPopKept is the faulty variant
\* that leaves the running sum untouched.
AfterPopKept(sum, oldest) == sum

AfterPop(sum, oldest) == FSub(sum, oldest)

\* line 169
WindowFull(n) == n = window

\* line 170: running_sum / window
MeanOf(sum) == FDivInt(sum, window)

\* results[ts] = mean
Put(dict, ts, mean) ==
    [t \in DOMAIN dict \cup {ts} |-> IF t = ts THEN mean ELSE dict[t]]

\* lines 164-170: one iteration of the loop
RollStep ==
    /\ pc = "rolling"
    /\ pos < Len(values)
    /\ LET ts     == values[pos + 1][1]
           value  == values[pos + 1][2]
           pushed == Append(queue, value)
           added  == FAdd(running_sum, value)
           pop    == ExceedsWindow(Len(pushed))
           q      == IF pop THEN Tail(pushed) ELSE pushed
           sum    == IF pop THEN AfterPop(added, Head(pushed)) ELSE added
       IN  /\ queue' = q
           /\ running_sum' = sum
           /\ results' = IF WindowFull(Len(q))
                          THEN Put(results, ts, MeanOf(sum))
                          ELSE results
    /\ pos' = pos + 1
    /\ UNCHANGED <<fetchvars, rowvars, datevars, trendvars, pc, values, window,
                   calls, prior>>

\* line 172
RollReturn ==
    /\ pc = "rolling"
    /\ pos = Len(values)
    /\ pc' = "rolled"
    /\ calls' = calls + 1
    /\ UNCHANGED <<fetchvars, rowvars, datevars, trendvars, values, window, pos,
                   queue, running_sum, results, prior>>

\* line 161: running_sum = 0.0, whatever an earlier call left
\* FreshSum starts every call from zero; FreshSumCarried is the faulty variant
\* that goes on from the sum the earlier call ended with.
FreshSumCarried(left) == left

FreshSum(left) == FZero

\* The caller calls _rolling_mean a second time with the arguments it passed
\* to the first call, as they are after that call (lines 160-162).
RollAgain ==
    /\ pc = "rolled"
    /\ calls = 1
    /\ prior' = results
    /\ pos' = 0
    /\ queue' = <<>>
    /\ running_sum' = FreshSum(running_sum)
    /\ results' = <<>>
    /\ pc' = "rolling"
    /\ UNCHANGED <<fetchvars, rowvars, datevars, trendvars, values, window, calls>>

NextRoll ==
    \/ RollStep
    \/ RollReturn
    \/ RollAgain

SpecRoll == InitRoll /\ [][NextRoll]_vars

----------------------------------------------------------------------------
UniqueTs ==
    \A i, j \in 1..Len(values) : i # j => values[i][1] # values[j][1]

\* The sum of the samples lo..hi recomputed from scratch: s = 0.0, then
\* s += value for each, in float arithmetic.
RECURSIVE ScratchSum(_, _)
ScratchSum(lo, hi) ==
    IF hi < lo THEN FZero
    ELSE FAdd(ScratchSum(lo, hi - 1), values[hi][2])

\* x is a whole number
IsInteger(x) == \A k \in 1..(NLIMBS - 1) : x.mag[k] = 0

\* The timestamps for which a mean is defined after pos samples.
Emitted == {values[i][1] : i \in window..pos}

\* C9 as stated: for unique timestamps, a mean is emitted for the i-th
\* sample exactly when i >= window, and it equals the sum of the samples
\* i-window+1..i, recomputed from scratch, divided by window.
C9_SlidingSumIsWindowSum ==
    UniqueTs =>
        /\ DOMAIN results = Emitted
        /\ \A i \in window..pos :
              results[values[i][1]] = FDivInt(ScratchSum(i - window + 1, i), window)

\* C9 amended: for unique timestamps, a mean is emitted for the i-th
\* sample exactly when i >= window; it equals the recomputed window sum
\* divided by window when the samples 1..i are whole numbers, whose sums
\* are exact in float arithmetic.
C9_SlidingSumIsWindowSumWhenExact ==
    UniqueTs =>
        /\ DOMAIN results = Emitted
        /\ \A i \in window..pos :
              (\A j \in 1..i : IsInteger(values[j][2])) =>
                 results[values[i][1]] =
                     FDivInt(ScratchSum(i - window + 1, i), window)

C9_Witness ==
    /\ pc = "rolled"
    /\ UniqueTs
    /\ Len(values) = 3
    /\ window = 2
    /\ \A j \in 1..3 : IsInteger(values[j][2])
    /\ values[1][2] # values[2][2]
    /\ Cardinality(DOMAIN results) = 2
    /\ results[values[3][1]] # results[values[2][1]]

\* Every sample has the value of the first.
ConstantSeries == \A i \in 1..Len(values) : values[i][2] = values[1][2]

\* C10 as stated: for strictly increasing timestamps and a constant value
\* V, every mean _rolling_mean defines equals V.
C10_ConstantSeriesMeanIsV ==
    (UniqueTs /\ ConstantSeries) =>
        \A t \in DOMAIN results : results[t] = values[1][2]

\* C10 amended: the same for a whole number V, whose multiples are exact
\* in float arithmetic.
C10_ConstantIntegerSeriesMeanIsV ==
    (UniqueTs /\ ConstantSeries /\ \A i \in 1..Len(values) : IsInteger(values[i][2])) =>
        \A t \in DOMAIN results : results[t] = values[1][2]

C10_Witness ==
    /\ pc = "rolled"
    /\ UniqueTs
    /\ ConstantSeries
    /\ Len(values) = 3
    /\ values[1][2] = FromInt(2)
    /\ window = 2
    /\ Cardinality(DOMAIN results) = 2

----------------------------------------------------------------------------
----------------------------------------------------------------------------
\* No fetch_candles call in progress.
FetchIdle ==
    /\ start_ms = 0
    /\ max_batches = 0
    /\ retries = 0
    /\ candles = <<>>
    /\ before = None
    /\ after = None
    /\ paging_mode = "before"
    /\ last_oldest = None
    /\ batches = 0
    /\ params = [before |-> None, after |-> None]
    /\ attempt = 0
    /\ sleeps = <<>>
    /\ payload = NoPayload
    /\ error = "none"
    /\ result = NoResult
    /\ requests = 0
    /\ switches = 0
    /\ pages = <<>>

\* list.sort(key=lambda item: item[0]): ascending by the first component,
\* stable (items with equal keys keep their order).
InsertByKey(s, x) ==
    LET n == Cardinality({i \in 1..Len(s) : s[i][1] <= x[1]})
    IN  SubSeq(s, 1, n) \o <<x>> \o SubSeq(s, n + 1, Len(s))

\* acc holds the first Len(acc) items of s, sorted; the others are inserted
\* one by one.
RECURSIVE SortInto(_, _)
SortInto(acc, s) ==
    IF Len(acc) >= Len(s) THEN acc
    ELSE SortInto(InsertByKey(acc, s[Len(acc) + 1]), s)

SortByKey(s) == SortInto(<<>>, s)

----------------------------------------------------------------------------
\* calc_ma_trend and load_ma_csv (ma_trend.py)
\*
\* A timestamp is the number of its hour (strptime with "%Y%m%d%H" orders
\* timestamps as their hours are ordered); an ma30 or ma60 value is a
\* float, which may be a number or nan (float("nan") parses).

\* Bounds of the CSV files.
MaxRows == 3
MaxHour == 2

\* float("nan"): unordered, unequal to everything, itself included.
NaN == -1

MaValues == {1, 2, NaN}

CsvRow == (1..MaxHour) \X MaValues \X MaValues

\* Files with a well-formed header and rows, in any order.
CsvFiles == UNION { [1..n -> CsvRow] : n \in 0..MaxRows }

InitTrend ==
    /\ csv_rows \in CsvFiles
    /\ trend_end \in (MaxHour - 1)..MaxHour
    /\ trend = NoTrend
    /\ trend_error = "none"
    /\ pc = "trend"
    /\ FetchIdle
    /\ RollIdle
    /\ RowsIdle
    /\ DatesIdle

\* Python's >, < and == on floats
FloatGt(a, b) == a # NaN /\ b # NaN /\ a > b

FloatLt(a, b) == a # NaN /\ b # NaN /\ a < b

FloatEq(a, b) == a # NaN /\ b # NaN /\ a = b

\* load_ma_csv, line 65: rows.sort(key=lambda item: item[0])
\* LoadMaCsv returns the rows sorted; LoadMaCsvUnsorted is the faulty variant
\* that returns them in file order.
LoadMaCsvUnsorted(file) == file

LoadMaCsv(file) == SortByKey(file)

\* line 79
Filtered(rs, end) == SelectSeq(rs, LAMBDA item : item[1] <= end)

\* line 80
TooFew(filtered) == Len(filtered) < 2

\* _trend_label, lines 69-74
TrendLabel(latest, previous) ==
    IF FloatGt(latest, previous) THEN "up"
    ELSE IF FloatLt(latest, previous) THEN "down"
    ELSE "flat"

\* lines 83-101
MaTrendResult(latest, previous) ==
    [latest_ts |-> latest[1], prev_ts |-> previous[1],
     ma30_latest |-> latest[2], ma30_prev |-> previous[2],
     ma30_trend |-> TrendLabel(latest[2], previous[2]),
     ma60_latest |-> latest[3], ma60_prev |-> previous[3],
     ma60_trend |-> TrendLabel(latest[3], previous[3])]

\* load_ma_csv, lines 62-63: a file without data rows
LoadFails ==
    /\ pc = "trend"
    /\ csv_rows = <<>>
    /\ trend_error' = "no_data_rows"
    /\ pc' = "trend_raised"
    /\ UNCHANGED <<fetchvars, rollvars, rowvars, datevars, csv_rows, trend_end,
                   trend>>

\* lines 78-81: fewer than two rows at or before end_dt
TrendInsufficient ==
    /\ pc = "trend"
    /\ csv_rows # <<>>
    /\ TooFew(Filtered(LoadMaCsv(csv_rows), trend_end))
    /\ trend_error' = "insufficient_rows"
    /\ pc' = "trend_raised"
    /\ UNCHANGED <<fetchvars, rollvars, rowvars, datevars, csv_rows, trend_end,
                   trend>>

\* lines 78-101
TrendReturn ==
    /\ pc = "trend"
    /\ csv_rows # <<>>
    /\ LET filtered == Filtered(LoadMaCsv(csv_rows), trend_end)
       IN  /\ ~TooFew(filtered)
           /\ trend' = MaTrendResult(filtered[Len(filtered)],
                                     filtered[Len(filtered) - 1])
    /\ pc' = "trend_done"
    /\ UNCHANGED <<fetchvars, rollvars, rowvars, datevars, csv_rows, trend_end,
                   trend_error>>

NextTrend ==
    \/ LoadFails
    \/ TrendInsufficient
    \/ TrendReturn

SpecTrend == InitTrend /\ [][NextTrend]_vars

\* The rows of the file with a timestamp <= end_dt.
AtOrBefore == {i \in 1..Len(csv_rows) : csv_rows[i][1] <= trend_end}

\* The ValueErrors of load_ma_csv and calc_ma_trend.
ValueErrors == {"no_data_rows", "insufficient_rows"}

\* The labels the claim fixes: up for >, down for <, flat for ==.
LabelAgrees(label, latest, previous) ==
    /\ label \in {"up", "down", "flat"}
    /\ FloatGt(latest, previous) => label = "up"
    /\ FloatLt(latest, previous) => label = "down"
    /\ FloatEq(latest, previous) => label = "flat"

\* C13: a call fails, with a ValueError and no result, exactly when fewer
\* than two rows of the file have a timestamp <= end_dt; otherwise latest is
\* a row with the greatest such timestamp, prev a row with the greatest
\* among the others, whatever the order of the file, and the ma30 and ma60
\* labels each compare latest with prev.
C13_TrendOfTwoLatestRows ==
    /\ pc = "trend_raised" =>
          /\ Cardinality(AtOrBefore) < 2
          /\ trend_error \in ValueErrors
          /\ trend = NoTrend
    /\ pc = "trend_done" =>
          /\ Cardinality(AtOrBefore) >= 2
          /\ trend_error = "none"
          /\ \E i, j \in AtOrBefore :
                /\ i # j
                /\ \A k \in AtOrBefore : csv_rows[k][1] <= csv_rows[i][1]
                /\ \A k \in AtOrBefore \ {i} : csv_rows[k][1] <= csv_rows[j][1]
                /\ trend.latest_ts = csv_rows[i][1]
                /\ trend.prev_ts = csv_rows[j][1]
                /\ trend.ma30_latest = csv_rows[i][2]
                /\ trend.ma30_prev = csv_rows[j][2]
                /\ trend.ma60_latest = csv_rows[i][3]
                /\ trend.ma60_prev = csv_rows[j][3]
          /\ LabelAgrees(trend.ma30_trend, trend.ma30_latest, trend.ma30_prev)
          /\ LabelAgrees(trend.ma60_trend, trend.ma60_latest, trend.ma60_prev)

C13_Witness ==
    /\ pc = "trend_done"
    /\ Len(csv_rows) = 3
    /\ csv_rows[1][1] > csv_rows[2][1]
    /\ csv_rows[3][1] = csv_rows[2][1]
    /\ trend.latest_ts = csv_rows[1][1]
    /\ trend.prev_ts = csv_rows[2][1]
    /\ trend.ma30_prev = NaN
    /\ trend.ma30_trend = "flat"
    /\ trend.ma60_trend = "down"

----------------------------------------------------------------------------
\* calc_ma_start_dates (demo01.py)
\*
\* A datetime is a record of year, month, day and hour (parse_yyyymmddhh
\* yields whole hours of the proleptic Gregorian calendar, without time
\* zone).  A formatted timestamp is the sequence of its decimal digits.

\* datetime.MINYEAR: datetime.min is 0001-01-01 00:00
MINYEAR == 1

IsLeap(y) == y % 4 = 0 /\ (y % 100 # 0 \/ y % 400 = 0)

DaysInMonth(y, m) ==
    IF m = 2 THEN (IF IsLeap(y) THEN 29 ELSE 28)
    ELSE IF m \in {4, 6, 9, 11} THEN 30 ELSE 31

IsDate(dt) ==
    /\ dt.year >= MINYEAR
    /\ dt.month \in 1..12
    /\ dt.day \in 1..DaysInMonth(dt.year, dt.month)
    /\ dt.hour \in 0..23

\* The end times of the model: the first days of the calendar, the first
\* year with four digits, a leap year and the year after it; the turn of
\* the year, the end of February; every hour of the day.
EndYears == {MINYEAR, 1000, 2024, 2025}

EndMonths == {1, 3, 12}

EndDays == {1, 2, 3, 28, 31}

EndDates ==
    { dt \in [year : EndYears, month : EndMonths, day : EndDays, hour : 0..23] :
        IsDate(dt) }

\* datetime - timedelta works on the day number (date.toordinal) and the
\* time of day: days before the year, days before the month, day.
DaysBeforeYear(y) ==
    (y - 1) * 365 + ((y - 1) \div 4) - ((y - 1) \div 100) + ((y - 1) \div 400)

RECURSIVE DaysBeforeMonth(_, _)
DaysBeforeMonth(y, m) ==
    IF m = 1 THEN 0 ELSE DaysBeforeMonth(y, m - 1) + DaysInMonth(y, m - 1)

ToOrdinal(dt) == DaysBeforeYear(dt.year) + DaysBeforeMonth(dt.year, dt.month) + dt.day

\* hours since datetime.min
ToHours(dt) == (ToOrdinal(dt) - 1) * 24 + dt.hour

\* date.fromordinal: the 400-, 100-, 4- and 1-year cycles, then the month
FromOrdinal(n) ==
    LET n0   == n - 1
        n400 == n0 \div 146097
        r400 == n0 % 146097
        n100 == r400 \div 36524
        r100 == r400 % 36524
        n4   == r100 \div 1461
        r4   == r100 % 1461
        n1   == r4 \div 365
        r1   == r4 % 365
        y    == n400 * 400 + n100 * 100 + n4 * 4 + n1 + 1
    IN  IF n1 = 4 \/ n100 = 4
        THEN [year |-> y - 1, month |-> 12, day |-> 31]
        ELSE LET m == CHOOSE k \in 1..12 :
                          /\ DaysBeforeMonth(y, k) <= r1
                          /\ r1 < DaysBeforeMonth(y, k) + DaysInMonth(y, k)
             IN  [year |-> y, month |-> m, day |-> r1 - DaysBeforeMonth(y, m) + 1]

FromHours(h) ==
    LET d == FromOrdinal((h \div 24) + 1)
    IN  [year |-> d.year, month |-> d.month, day |-> d.day, hour |-> h % 24]

\* dt - timedelta(hours=n) raises OverflowError below datetime.min
Overflows(dt, n) == ToHours(dt) - n < 0

MinusHours(dt, n) == FromHours(ToHours(dt) - n)

\* line 26
Ma30Start(dt) == MinusHours(dt, 29)

\* line 27
\* Ma60Start goes back 59 hours, the first of 60 hourly bars that end at dt;
\* Ma60StartWindow is the faulty variant that goes back the whole window.
Ma60StartWindow(dt) == MinusHours(dt, 60)

Ma60Start(dt) == MinusHours(dt, 59)

\* n written with w digits, padded with zeros
Digits(n, w) == [i \in 1..w |-> (n \div (10 ^ (w - i))) % 10]

\* n written without leading zeros
Decimal(n) == Digits(n, CHOOSE w \in 1..4 : n < 10 ^ w /\ (w = 1 \/ n >= 10 ^ (w - 1)))

\* strftime("%Y%m%d%H"), lines 29-30: %m, %d and %H have two digits; %Y has
\* four digits, but for years below 1000 the C library decides whether they
\* are padded with zeros (glibc does not pad).
Strftime(dt) ==
    (IF pads_year THEN Digits(dt.year, 4) ELSE Decimal(dt.year))
        \o Digits(dt.month, 2) \o Digits(dt.day, 2) \o Digits(dt.hour, 2)

InitDates ==
    /\ end_dt \in EndDates
    /\ pads_year \in BOOLEAN
    /\ start_dates = NoDates
    /\ dates_error = "none"
    /\ pc = "dates"
    /\ FetchIdle
    /\ RollIdle
    /\ RowsIdle
    /\ TrendIdle

\* lines 26-27: the subtraction leaves the range of datetime
CalcOverflow ==
    /\ pc = "dates"
    /\ Overflows(end_dt, 29) \/ Overflows(end_dt, 59)
    /\ dates_error' = "overflow"
    /\ pc' = "dates_raised"
    /\ UNCHANGED <<fetchvars, rollvars, rowvars, trendvars, end_dt, pads_year,
                   start_dates>>

\* lines 24-31
CalcMaStartDates ==
    /\ pc = "dates"
    /\ ~Overflows(end_dt, 29)
    /\ ~Overflows(end_dt, 59)
    /\ start_dates' = [ma30_start |-> Strftime(Ma30Start(end_dt)),
                       ma60_start |-> Strftime(Ma60Start(end_dt))]
    /\ pc' = "dates_done"
    /\ UNCHANGED <<fetchvars, rollvars, rowvars, trendvars, end_dt, pads_year,
                   dates_error>>

NextDates ==
    \/ CalcOverflow
    \/ CalcMaStartDates

SpecDates == InitDates /\ [][NextDates]_vars

\* The day before dt on the calendar, at the same hour.
DayBefore(dt) ==
    IF dt.day > 1 THEN [dt EXCEPT !.day = dt.day - 1]
    ELSE IF dt.month > 1
         THEN [dt EXCEPT !.month = dt.month - 1,
                         !.day = DaysInMonth(dt.year, dt.month - 1)]
         ELSE [dt EXCEPT !.year = dt.year - 1, !.month = 12, !.day = 31]

RECURSIVE DaysBefore(_, _)
DaysBefore(dt, k) == IF k = 0 THEN dt ELSE DaysBefore(DayBefore(dt), k - 1)

\* n hours before dt, counted on the calendar: back over as many midnights
\* as n hours cross, to the hour of the day n hours earlier.
HoursBefore(dt, n) ==
    [DaysBefore(dt, (n - dt.hour + 23) \div 24) EXCEPT !.hour = (dt.hour - n) % 24]

\* A timestamp in the form YYYYMMDDhh.
Label(dt) ==
    Digits(dt.year, 4) \o Digits(dt.month, 2) \o Digits(dt.day, 2)
        \o Digits(dt.hour, 2)

\* The end time 2025012816 of the example.
ExampleEnd == [year |-> 2025, month |-> 1, day |-> 28, hour |-> 16]

\* dt is at or after 1000-01-03 11:00, so that dt minus 59 hours lies in a
\* year of four digits.
FourDigitYears(dt) ==
    \/ dt.year > 1000
    \/ dt.year = 1000 /\ (dt.month > 1 \/ dt.day > 3 \/ (dt.day = 3 /\ dt.hour >= 11))

\* C12 as stated: for every valid end time T the call returns T minus 29
\* hours and T minus 59 hours as YYYYMMDDhh, and end 2025012816 gives
\* 2025012711 and 2025012601.
C12_StartDatesExact ==
    pc # "dates" =>
        /\ pc = "dates_done"
        /\ start_dates.ma30_start = Label(HoursBefore(end_dt, 29))
        /\ start_dates.ma60_start = Label(HoursBefore(end_dt, 59))
        /\ end_dt = ExampleEnd =>
              /\ start_dates.ma30_start = <<2, 0, 2, 5, 0, 1, 2, 7, 1, 1>>
              /\ start_dates.ma60_start = <<2, 0, 2, 5, 0, 1, 2, 6, 0, 1>>

\* C12 amended: for every end time T from 1000-01-03 11:00 on, the call
\* returns T minus 29 hours and T minus 59 hours as YYYYMMDDhh, ma60_start
\* being 30 hours before ma30_start; end 2025012816 gives 2025012711 and
\* 2025012605.  The call raises only for T in the first 59 hours of year 1.
C12_StartDatesExactFromYear1000 ==
    /\ (pc # "dates" /\ FourDigitYears(end_dt)) =>
          /\ pc = "dates_done"
          /\ start_dates.ma30_start = Label(HoursBefore(end_dt, 29))
          /\ start_dates.ma60_start = Label(HoursBefore(end_dt, 59))
          /\ start_dates.ma60_start =
                Label(HoursBefore(HoursBefore(end_dt, 29), 30))
          /\ end_dt = ExampleEnd =>
                /\ start_dates.ma30_start = <<2, 0, 2, 5, 0, 1, 2, 7, 1, 1>>
                /\ start_dates.ma60_start = <<2, 0, 2, 5, 0, 1, 2, 6, 0, 5>>
    /\ pc = "dates_raised" =>
          /\ end_dt.year = MINYEAR
          /\ end_dt.month = 1
          /\ end_dt.day <= 3
          /\ start_dates = NoDates

C12_Witness ==
    /\ pc = "dates_done"
    /\ end_dt = ExampleEnd
    /\ start_dates.ma60_start = <<2, 0, 2, 5, 0, 1, 2, 6, 0, 5>>

----------------------------------------------------------------------------
\* main, lines 278-287, and build_rows (okx_ma_fetch.py)
\*
\* A candle is the pair of its timestamp (item[0]) and its close price in
\* hundredths (item[4]).  Timestamps count half hours, so that target_start
\* need not fall on a candle.

\* The largest number of candles fetched.
MaxCandles == 62

\* DEFAULT_BAR = "1H": the distance of two hourly candles
HOUR == 2

\* the windows of build_rows (lines 184 and 185)
MA30 == 30
MA60 == 60

\* start_for_ma = target_start - timedelta(hours=59) (line 264)
LEAD_HOURS == 59

\* The close price of the i-th oldest candle, in hundredths.
CentsOf(i) == IF i % 3 = 0 THEN 10 ELSE IF i % 3 = 1 THEN 100 ELSE 200

\* The timestamp of the i-th oldest candle: one candle per hour; with a
\* gap, the candles after the p-th are an hour late; with a repeat, the
\* candle after the p-th has the timestamp of the p-th.
TsOf(shape, p, i) ==
    IF shape = "gap" /\ i > p THEN HOUR * (i + 1)
    ELSE IF shape = "repeat" /\ i > p THEN HOUR * (i - 1)
    ELSE HOUR * i

Shapes == {"hourly", "gap", "repeat"}

DefectPositions == {1, LEAD_HOURS}

\* What fetch_candles may return: n candles, newest first (the order of the
\* pages) or oldest first.
Fetched(shape, p, n, newest_first) ==
    [k \in 1..n |->
        LET i == IF newest_first THEN n + 1 - k ELSE k
        IN  <<TsOf(shape, p, i), CentsOf(i)>>]

FetchedLists ==
    { Fetched(shape, p, n, o) :
        shape \in Shapes, p \in DefectPositions, n \in 0..MaxCandles, o \in BOOLEAN }

\* target_start in ms (line 281): before every candle, or around the 60th
\* hour and later, on a candle or between two.
Starts == {0} \cup ((HOUR * LEAD_HOURS)..(HOUR * (MaxCandles + 1)))

InitRows ==
    /\ fetched \in FetchedLists
    /\ target_start = 0
    /\ parsed = <<>>
    /\ ma30 = <<>>
    /\ ma60 = <<>>
    /\ rows = <<>>
    /\ main_error = "none"
    /\ pc = "main"
    /\ FetchIdle
    /\ RollIdle
    /\ DatesIdle
    /\ TrendIdle

\* line 181: (int(item[0]), float(item[4])) for each candle
ParseAll(cs) == [k \in 1..Len(cs) |-> <<cs[k][1], ParseFloat(cs[k][2])>>]

\* line 185: the window of the second rolling mean
\* Ma60Window is the window of line 185; Ma60WindowLong is the faulty variant
\* of a window one sample longer.
Ma60WindowLong == MA60 + 1

Ma60Window == MA60

\* line 189
\* BelowStart is the test of line 189 (<); BelowStartOrAt is the faulty variant
\* that also skips the sample at start_ms.
BelowStartOrAt(ts, start) == ts <= start

BelowStart(ts, start) == ts < start

\* line 191
LacksMean(ts, m30, m60) == ts \notin DOMAIN m30 \/ ts \notin DOMAIN m60

\* 1970-01-01 00:00 UTC
Epoch == [year |-> 1970, month |-> 1, day |-> 1, hour |-> 0]

\* _format_ts, lines 175-177: the UTC hour that holds ts, as YYYYMMDDhh
FormatTs(ts) == Label(FromHours(ToHours(Epoch) + (ts \div HOUR)))

\* lines 187-195
Rows(ps, start, m30, m60) ==
    LET kept == SelectSeq(ps, LAMBDA item :
                    ~BelowStart(item[1], start) /\ ~LacksMean(item[1], m30, m60))
    IN  [k \in 1..Len(kept) |->
            <<FormatTs(kept[k][1]), m30[kept[k][1]], m60[kept[k][1]]>>]

\* main, lines 278-279
MainNoCandles ==
    /\ pc = "main"
    /\ fetched = <<>>
    /\ main_error' = "no_candles"
    /\ pc' = "main_raised"
    /\ UNCHANGED <<fetchvars, rollvars, datevars, trendvars, fetched,
                   target_start, parsed, ma30, ma60, rows>>

\* main, line 281, and build_rows, lines 181-184: parse, sort, and call
\* _rolling_mean(parsed, 30)
BuildRowsMa30 ==
    /\ pc = "main"
    /\ fetched # <<>>
    /\ parsed' = SortByKey(ParseAll(fetched))
    /\ values' = parsed'
    /\ window' = MA30
    /\ pos' = 0
    /\ queue' = <<>>
    /\ running_sum' = FZero
    /\ results' = <<>>
    /\ pc' = "rolling"
    /\ UNCHANGED <<fetchvars, datevars, trendvars, calls, prior, fetched,
                   target_start, ma30, ma60, rows, main_error>>

\* lines 184-185: ma30 is returned, call _rolling_mean(parsed, 60)
BuildRowsMa60 ==
    /\ pc = "rolled"
    /\ calls = 1
    /\ ma30' = results
    /\ values' = parsed
    /\ window' = Ma60Window
    /\ pos' = 0
    /\ queue' = <<>>
    /\ running_sum' = FZero
    /\ results' = <<>>
    /\ pc' = "rolling"
    /\ UNCHANGED <<fetchvars, datevars, trendvars, calls, prior, fetched,
                   target_start, parsed, ma60, rows, main_error>>

\* lines 185-195: ma60 is returned, the rows are filtered.  start_ms, which
\* is main's target_start, is read here for the first time, and is drawn
\* here.
BuildRowsFilter ==
    /\ pc = "rolled"
    /\ calls = 2
    /\ ma60' = results
    /\ \E t \in Starts :
          /\ target_start' = t
          /\ rows' = Rows(parsed, t, ma30, results)
    /\ pc' = "built"
    /\ UNCHANGED <<fetchvars, rollvars, datevars, trendvars, fetched, parsed,
                   ma30, main_error>>

\* main, lines 282-283
MainInsufficient ==
    /\ pc = "built"
    /\ rows = <<>>
    /\ main_error' = "insufficient_data"
    /\ pc' = "main_raised"
    /\ UNCHANGED <<fetchvars, rollvars, datevars, trendvars, fetched,
                   target_start, parsed, ma30, ma60, rows>>

\* main, lines 285-287
MainWrite ==
    /\ pc = "built"
    /\ rows # <<>>
    /\ pc' = "written"
    /\ UNCHANGED <<fetchvars, rollvars, rowvars, datevars, trendvars>>

NextRows ==
    \/ MainNoCandles
    \/ BuildRowsMa30
    \/ RollStep
    \/ RollReturn
    \/ BuildRowsMa60
    \/ BuildRowsFilter
    \/ MainInsufficient
    \/ MainWrite

SpecRows == InitRows /\ [][NextRows]_vars

\* build_rows has returned.
RowsBuilt == pc \in {"built", "written"} \/ main_error = "insufficient_data"

UniqueParsed ==
    \A i, j \in 1..Len(parsed) : i # j => parsed[i][1] # parsed[j][1]

\* The samples at or after start_ms that have at least 59 earlier samples.
Eligible ==
    {i \in 1..Len(parsed) : parsed[i][1] >= target_start /\ i >= MA60}

\* C11: every row is the row of a timestamp >= start_ms for which the
\* 30-sample and the 60-sample means are defined, and holds these means;
\* for unique timestamps the rows are, in ascending order of timestamp, the
\* rows of the samples >= start_ms that have at least 59 earlier samples.
C11_RowsNeedBothMeans ==
    RowsBuilt =>
        /\ \A k \in 1..Len(rows) :
              \E i \in 1..Len(parsed) :
                 /\ parsed[i][1] >= target_start
                 /\ parsed[i][1] \in DOMAIN ma30
                 /\ parsed[i][1] \in DOMAIN ma60
                 /\ rows[k] = <<FormatTs(parsed[i][1]), ma30[parsed[i][1]],
                                ma60[parsed[i][1]]>>
        /\ UniqueParsed =>
              /\ \A i \in 1..(Len(parsed) - 1) : parsed[i][1] < parsed[i + 1][1]
              /\ Len(rows) = Cardinality(Eligible)
              /\ \A k \in 1..Len(rows) :
                    LET i == Len(parsed) - Len(rows) + k
                    IN  /\ i \in Eligible
                        /\ rows[k][1] = FormatTs(parsed[i][1])
                        /\ rows[k][2] = ma30[parsed[i][1]]
                        /\ rows[k][3] = ma60[parsed[i][1]]

C11_Witness ==
    /\ pc = "written"
    /\ UniqueParsed
    /\ fetched[1][1] > fetched[2][1]
    /\ target_start = 0
    /\ Len(parsed) = MaxCandles
    /\ Len(rows) = 3
    /\ Cardinality(DOMAIN ma30) = 33

\* The candles are hourly and gap-free (hence unique).
HourlyGapFree ==
    \A i \in 1..(Len(parsed) - 1) : parsed[i + 1][1] = parsed[i][1] + HOUR

\* The candles at or after target_start.
AtOrAfterStart == {i \in 1..Len(parsed) : parsed[i][1] >= target_start}

\* C20: when the candles are hourly and gap-free and the oldest is at or
\* before target_start - 59 hours, build_rows emits a row for every candle
\* at or after target_start, so main raises "insufficient data" only when
\* there is no such candle.
C20_LeadSuffices ==
    (/\ RowsBuilt
     /\ HourlyGapFree
     /\ parsed[1][1] <= target_start - LEAD_HOURS * HOUR) =>
        /\ Len(rows) = Cardinality(AtOrAfterStart)
        /\ \A i \in AtOrAfterStart :
              \E k \in 1..Len(rows) : rows[k][1] = FormatTs(parsed[i][1])
        /\ main_error = "insufficient_data" => AtOrAfterStart = {}
        /\ pc = "written" => AtOrAfterStart # {}

C20_Witness ==
    /\ pc = "written"
    /\ HourlyGapFree
    /\ target_start = HOUR * (LEAD_HOURS + 1) + 1
    /\ parsed[1][1] = HOUR
    /\ Len(parsed) = MaxCandles
    /\ Len(rows) = 2

====
